---- MODULE Spec2Model ----
(***************************************************************************)
(* A model of DAT.Globe (src/globe/globe.js): the construction of a globe, *)
(* its animation loop and its GeoJSON operations (addPoint, addMultiPoint, *)
(* addLineString, addMultiLineString, addFeature, addFeatureCollection,    *)
(* addGeoJson) over the three.js scene graph.                              *)
(*                                                                         *)
(* three.js objects live in a heap `objs` (a sequence; an object's index   *)
(* is its identity and stands for its uuid).  Angles are integers in units *)
(* of 1/divs degree, so that the interpolation of a line into divs steps   *)
(* per segment is exact; input coordinates are whole degrees.  A position  *)
(* on the globe is kept in the spherical form the code computes it from:   *)
(*   x = r sin(phi) cos(theta), y = r cos(phi), z = r sin(phi) sin(theta)  *)
(* is the record [r, phi, theta]; its distance from the centre is r.       *)
(*                                                                         *)
(* The camera control (key, wheel and drag handlers, the damping of        *)
(* render) works on fixed-point numbers: a distance is an integer number   *)
(* of 1/DistScale units, an angle an integer number of 1/AngScale radian,  *)
(* and a product with a decimal factor is rounded to the nearest unit.     *)
(*                                                                         *)
(* src/unnamed/part_001 is another DAT.Globe: it has addData, createPoints  *)
(* and geojson operations of its own (addPoint, addMultiPoint,             *)
(* parseLineString, parseMultiLineString, addGeoJson).  Its data (base     *)
(* geometry, points mesh, time) is kept in the variable `data`, its scene  *)
(* in the same heap; Next is the globe of globe.js, NextDataGlobe the      *)
(* globe of part_001.                                                      *)
(***************************************************************************)
EXTENDS Integers, Sequences, FiniteSets, TLC

\* ---------------------------------------------------------------- bounds
MaxPts == 2        \* points of an input line or multi-point
MaxLines == 2      \* lines of an input multi-line
MaxFeats == 2      \* features of an input collection
MaxObjs == 6       \* three.js objects in the heap
MaxFrames == 3     \* render steps
MaxAnimate == 2    \* explicit animate() calls
MaxEvents == 3     \* input events (key, wheel, mouse) dispatched
MaxTriples == 1    \* points of a data array given to addData
MaxTargets == 3    \* morph targets pushed by addData
MaxMeshes == 2     \* points meshes made by createPoints in one scene
MaxDataObjs == 8   \* three.js objects in the heap of the data globe

\* ------------------------------------------------------ program constants
DefaultEarthRadius == 200
MultiPointRadius == 203
divs == 100

Null == 0          \* null / undefined object reference

VARIABLES
  constructed,     \* new DAT.Globe(...) returned (did not throw)
  optAutoStart,    \* opts.autoStart as passed: "undefined", "true", "false", "1"
  autoStart,       \* the constructor's local autoStart
  earthRadius,     \* the constructor's local earthRadius
  disableAtmosphere, \* the constructor's local disableAtmosphere
  objs,            \* heap of three.js objects
  scene,           \* the closure variable scene (heap index, Null before init)
  renderer,        \* the closure variable renderer is set
  thisScene,       \* the public property this.scene
  thisRenderer,    \* the public property this.renderer is set
  activeGeoJsons,  \* registry: uuid -> object
  pending,         \* animation-frame callbacks scheduled
  frames,          \* render() steps taken
  animateCalls,    \* explicit calls of globe.animate()
  camera,          \* the closure variables of the camera control
  pointer,         \* the last of mouseover / mouseout dispatched ("none" before any)
  events,          \* input events dispatched
  data,            \* the data globe: _baseGeometry, points, _time, ...
  last             \* the last call: operation, input, result, state before

vars == <<constructed, optAutoStart, autoStart, earthRadius, disableAtmosphere, objs, scene, renderer,
          thisScene, thisRenderer, activeGeoJsons, pending, frames, animateCalls,
          camera, pointer, events, data, last>>

\* ------------------------------------------------------------ three.js
\* A three.js object: Scene, Mesh, Object3D or Line.
NoPos == [r |-> 0, phi |-> 0, theta |-> 0]

NewObject(type, position, vertices) ==
  [type |-> type, parent |-> Null, children |-> <<>>,
   position |-> position, vertices |-> vertices]

RemoveFrom(s, c) == SelectSeq(s, LAMBDA e : e # c)

\* parent.add(child): a null child is refused (console error), an object that
\* has a parent is first removed from it, then appended to parent.children.
Object3DAdd(h, parent, child) ==
  IF child = Null \/ child = parent THEN h
  ELSE LET p0 == h[child].parent
           h1 == IF p0 # Null
                   THEN [h EXCEPT ![p0].children = RemoveFrom(@, child)]
                   ELSE h
       IN [h1 EXCEPT ![child].parent = parent,
                     ![parent].children = Append(@, child)]

\* ------------------------------------------------------------- utility
latToSphericalCoords(lat) == 90 * divs - lat

lngToSphericalCoords(lng) == 180 * divs - lng

\* The point at radius r above (lng, lat), both in 1/divs degree.
SurfacePoint(r, lng, lat) ==
  [r |-> r, phi |-> latToSphericalCoords(lat), theta |-> lngToSphericalCoords(lng)]

Deg(d) == d * divs

\* ----------------------------------------------------------- construction
\* A constructor that starts the loop only when autoStart is passed as true.
AutoStartOf_OnlyTrue(opt) == opt = "true"

\* typeof opts.autoStart === "undefined" || opts.autoStart === true
AutoStartOf(opt) == opt = "undefined" \/ opt = "true"

\* opts.earthRadius || 200   (0 stands for an omitted or falsy option)
EarthRadiusOf(opt) == IF opt = 0 THEN DefaultEarthRadius ELSE opt

\* opts.disableAtmosphere || false
DisableAtmosphereOf(opt) == opt = "true"

\* init(): a fresh scene holding the earth mesh and, unless the atmosphere
\* is disabled, the atmosphere mesh (which is then not even created).
\* The result is the heap and the index of the new scene.
InitScene(h, radius, noAtmosphere) ==
  LET s == Len(h) + 1
      h1 == h \o <<NewObject("Scene", NoPos, <<>>),
                   NewObject("Mesh", NoPos, <<>>)>>
      h2 == Object3DAdd(h1, s, s + 1)
      h3 == IF noAtmosphere THEN h2
            ELSE Object3DAdd(Append(h2, NewObject("Mesh", NoPos, <<>>)), s, s + 2)
  IN [objs |-> h3, scene |-> s]

\* ------------------------------------------------------------- geojson
\* The state a geojson operation works on, and what it leaves:
\* [objs, reg, ret, threw]; ret is the returned object, threw the message
\* thrown (NoThrow when the operation returned).
NoThrow == ""

NeedTwoPoints == "Need at least 2 points for a line"

UnknownType == "Unknown geojson type"

UnexpectedType == "Unexpected typ. Expected FeatureCollection"

TypeError == "TypeError"

\* The value of F at x, with x computed once.
Then(x, F(_)) == CHOOSE v \in {F(y) : y \in {x}} : TRUE

World(h, reg) == [objs |-> h, reg |-> reg, ret |-> Null, threw |-> NoThrow]

Throw(w, message) == [w EXCEPT !.ret = Null, !.threw = message]

Threw(r) == r.threw # NoThrow

addToActiveGeoJsons(w, threejsObj) ==
  IF threejsObj = Null THEN [w EXCEPT !.ret = Null]
  ELSE [w EXCEPT !.reg = [k \in (DOMAIN w.reg) \cup {threejsObj} |->
                            IF k = threejsObj THEN threejsObj ELSE w.reg[k]],
                 !.objs = Object3DAdd(w.objs, scene, threejsObj),
                 !.ret = threejsObj]

Reverse(s) == [i \in 1..Len(s) |-> s[Len(s) + 1 - i]]

\* A Feature's coordinates read in the opposite order to an array's.
CoordsOf_Flipped(input) ==
  IF input.constructor = "Array" THEN input.value
  ELSE Reverse(input.geometry.coordinates)

\* input.constructor === Array ? input : input.geometry.coordinates
CoordsOf(input) ==
  IF input.constructor = "Array" THEN input.value ELSE input.geometry.coordinates

PointPosition(coords) == SurfacePoint(earthRadius, Deg(coords[1]), Deg(coords[2]))

addPoint(w, input) ==
  LET coords == CoordsOf(input)
      point == Len(w.objs) + 1
      h1 == Append(w.objs, NewObject("Mesh", PointPosition(coords), <<>>))
  IN addToActiveGeoJsons([w EXCEPT !.objs = h1], point)

MultiPointPosition(coords) == SurfacePoint(MultiPointRadius, Deg(coords[1]), Deg(coords[2]))

\* The loop of addMultiPoint: one sphere per coordinate, added to `points`.
RECURSIVE MultiPointLoop(_, _, _, _)
MultiPointLoop(h, points, coords, ptIdx) ==
  IF ptIdx > Len(coords) THEN h
  ELSE Then(Object3DAdd(Append(h, NewObject("Mesh", MultiPointPosition(coords[ptIdx]), <<>>)),
                        points, Len(h) + 1),
            LAMBDA h1 : MultiPointLoop(h1, points, coords, ptIdx + 1))

addMultiPoint(w, input) ==
  LET coords == CoordsOf(input)
      points == Len(w.objs) + 1
      h1 == Append(w.objs, NewObject("Object3D", NoPos, <<>>))
  IN Then(MultiPointLoop(h1, points, coords, 1),
          LAMBDA h2 : addToActiveGeoJsons([w EXCEPT !.objs = h2], points))

\* pts[k] of addLineString (k from 1): segment idx pushes the divs points
\* firstPt + j * (secondPt - firstPt) / divs, j = 0 .. divs-1 (in 1/divs degree).
LinePt(inPts, k) ==
  LET idx == ((k - 1) \div divs) + 1
      j == (k - 1) % divs
      firstPt == inPts[idx]
      secondPt == inPts[idx + 1]
  IN <<Deg(firstPt[1]) + j * (secondPt[1] - firstPt[1]),
       Deg(firstPt[2]) + j * (secondPt[2] - firstPt[2])>>

\* geometry.vertices of the line: every pts[c] projected at earthRadius.
LineVertices(inPts) ==
  [c \in 1..((Len(inPts) - 1) * divs) |->
     SurfacePoint(earthRadius, LinePt(inPts, c)[1], LinePt(inPts, c)[2])]

addLineString(w, input) ==
  LET inPts == CoordsOf(input)
  IN IF Len(inPts) < 2 THEN Throw(w, NeedTwoPoints)
     ELSE LET line == Len(w.objs) + 1
              h1 == Append(w.objs, NewObject("Line", NoPos, LineVertices(inPts)))
          IN addToActiveGeoJsons([w EXCEPT !.objs = h1], line)

\* The loop of addMultiLineString: [objs, threw]; it throws at the first line
\* of fewer than 2 points.
RECURSIVE MultiLineLoop(_, _, _, _)
MultiLineLoop(h, lines, inLns, inLnsIdx) ==
  IF inLnsIdx > Len(inLns) THEN [objs |-> h, threw |-> NoThrow]
  ELSE LET inPts == inLns[inLnsIdx]
       IN IF Len(inPts) < 2 THEN [objs |-> h, threw |-> NeedTwoPoints]
          ELSE LET line == Len(h) + 1
                   h1 == Append(h, NewObject("Line", NoPos, LineVertices(inPts)))
               IN MultiLineLoop(Object3DAdd(h1, lines, line), lines, inLns, inLnsIdx + 1)

\* An addMultiLineString that registers its container before building the
\* lines: a throw finds it registered.
addMultiLineString_EarlyRegister(w, input) ==
  LET inLns == CoordsOf(input)
      lines == Len(w.objs) + 1
      h1 == Append(w.objs, NewObject("Object3D", NoPos, <<>>))
  IN Then(addToActiveGeoJsons([w EXCEPT !.objs = h1], lines),
          LAMBDA w1 : Then(MultiLineLoop(w1.objs, lines, inLns, 1),
            LAMBDA l : IF Threw(l) THEN Throw(w1, l.threw)
                       ELSE [w1 EXCEPT !.objs = l.objs]))

\* On a throw the container and the lines built so far are unreachable: the
\* heap is left as it was.
addMultiLineString(w, input) ==
  LET inLns == CoordsOf(input)
      lines == Len(w.objs) + 1
      h1 == Append(w.objs, NewObject("Object3D", NoPos, <<>>))
      l == MultiLineLoop(h1, lines, inLns, 1)
  IN IF Threw(l) THEN Throw(w, l.threw)
     ELSE addToActiveGeoJsons([w EXCEPT !.objs = l.objs], lines)

\* An addFeature without the MultiPoint case.
addFeature_NoMultiPoint(w, node) ==
  LET ftType == node.geometry.type
      r == CASE ftType = "Point" -> addPoint(w, node)
             [] ftType = "LineString" -> addLineString(w, node)
             [] ftType = "MultiLineString" -> addMultiLineString(w, node)
             [] OTHER -> [w EXCEPT !.ret = Null]
  IN Then(r, LAMBDA added : IF Threw(added) THEN added
                            ELSE addToActiveGeoJsons(added, added.ret))

addFeature(w, node) ==
  LET ftType == node.geometry.type
      r == CASE ftType = "Point" -> addPoint(w, node)
             [] ftType = "MultiPoint" -> addMultiPoint(w, node)
             [] ftType = "LineString" -> addLineString(w, node)
             [] ftType = "MultiLineString" -> addMultiLineString(w, node)
             [] OTHER -> [w EXCEPT !.ret = Null]
  IN Then(r, LAMBDA added : IF Threw(added) THEN added
                            ELSE addToActiveGeoJsons(added, added.ret))

\* The loop of addFeatureCollection over node.features; a throw of addFeature
\* leaves what the earlier features did.
RECURSIVE FeatureLoop(_, _, _, _)
FeatureLoop(w, ret, feats, i) ==
  IF i > Len(feats) THEN w
  ELSE Then(addFeature(w, feats[i]),
            LAMBDA f : IF Threw(f) THEN f
                       ELSE Then([f EXCEPT !.objs = Object3DAdd(f.objs, ret, f.ret)],
                                 LAMBDA w1 : FeatureLoop(w1, ret, feats, i + 1)))

\* An addFeatureCollection that returns its container without registering it.
addFeatureCollection_Unregistered(w, node) ==
  IF node.type # "FeatureCollection" THEN Throw(w, UnexpectedType)
  ELSE LET ret == Len(w.objs) + 1
           h1 == Append(w.objs, NewObject("Object3D", NoPos, <<>>))
       IN Then(FeatureLoop([w EXCEPT !.objs = h1], ret, node.features, 1),
               LAMBDA r : IF Threw(r) THEN r ELSE [r EXCEPT !.ret = ret])

addFeatureCollection(w, node) ==
  IF node.type # "FeatureCollection" THEN Throw(w, UnexpectedType)
  ELSE LET ret == Len(w.objs) + 1
           h1 == Append(w.objs, NewObject("Object3D", NoPos, <<>>))
       IN Then(FeatureLoop([w EXCEPT !.objs = h1], ret, node.features, 1),
               LAMBDA r : IF Threw(r) THEN r ELSE addToActiveGeoJsons(r, ret))

\* scene.add(feat) of addGeoJson, which returns nothing.
SceneAdd(feat) ==
  IF Threw(feat) THEN feat
  ELSE [feat EXCEPT !.objs = Object3DAdd(feat.objs, scene, feat.ret), !.ret = Null]

\* An addGeoJson that ignores an unknown type instead of throwing.
addGeoJson_Silent(w, geoJson) ==
  CASE geoJson.type = "Feature" ->
         Then(addFeature(w, geoJson), LAMBDA feat : SceneAdd(feat))
    [] geoJson.type = "FeatureCollection" ->
         Then(addFeatureCollection(w, geoJson), LAMBDA feat : SceneAdd(feat))
    [] OTHER -> [w EXCEPT !.ret = Null]

\* addGeoJson returns nothing; scene.add(feat) follows the parse.
addGeoJson(w, geoJson) ==
  CASE geoJson.type = "Feature" ->
         Then(addFeature(w, geoJson), LAMBDA feat : SceneAdd(feat))
    [] geoJson.type = "FeatureCollection" ->
         Then(addFeatureCollection(w, geoJson), LAMBDA feat : SceneAdd(feat))
    [] OTHER -> Throw(w, UnknownType)

\* ------------------------------------------------------------- inputs
\* Sample coordinates, [longitude, latitude] in whole degrees.
SamplePts == << <<30, 60>>, <<-90, 0>>, <<120, -45>> >>

Pt(i) == SamplePts[((i - 1) % Len(SamplePts)) + 1]

Path(n) == [i \in 1..n |-> Pt(i)]

Forms == {"Array", "Object"}

\* The bare array, or the GeoJSON Feature, holding the coordinates c.
Input(form, gtype, c) ==
  IF form = "Array" THEN [constructor |-> "Array", value |-> c]
  ELSE [constructor |-> "Object", type |-> "Feature",
        geometry |-> [type |-> gtype, coordinates |-> c]]

\* The n elements of the list read cyclically from position s.
Window(list, s, n) == [i \in 1..n |-> list[((s + i - 2) % Len(list)) + 1]]

Windows(list, maxLen) == {Window(list, s, n) : s \in 1..Len(list), n \in 0..maxLen}

\* The point counts of the lines of a multi-line input: lines of MaxPts and
\* of 2 points, and a line of 1 point, too short.
LineLens == Windows(<<MaxPts, 1, 2>>, MaxLines)

MultiLineCoords(lens) == [i \in 1..Len(lens) |-> Path(lens[i])]

\* A feature is described by its geometry type and the sizes of its
\* coordinate arrays.
Desc(gtype, lens) == [gtype |-> gtype, lens |-> lens]

FeatureDescs ==
  {Desc("Point", <<1>>), Desc("Polygon", <<>>)}
    \cup {Desc(g, <<n>>) : g \in {"MultiPoint", "LineString"}, n \in 0..MaxPts}
    \cup {Desc("MultiLineString", l) : l \in LineLens}

FeatureOf(d) ==
  Input("Object", d.gtype,
        CASE d.gtype = "Point" -> Pt(d.lens[1])
          [] d.gtype \in {"MultiPoint", "LineString"} -> Path(d.lens[1])
          [] d.gtype = "MultiLineString" -> MultiLineCoords(d.lens)
          [] OTHER -> <<Path(MaxPts + 2)>>)

\* The features collections are made of: one of each kind, and a line too short.
SampleDescs ==
  <<Desc("Point", <<1>>), Desc("LineString", <<2>>), Desc("Polygon", <<>>),
    Desc("MultiLineString", <<2>>), Desc("LineString", <<1>>), Desc("MultiPoint", <<1>>)>>

Collections == Windows(SampleDescs, MaxFeats)

CollectionOf(ds) ==
  [constructor |-> "Object", type |-> "FeatureCollection",
   features |-> [i \in 1..Len(ds) |-> FeatureOf(ds[i])]]

\* Objects that are neither a Feature nor a FeatureCollection.
OtherTypes == {"Point", "GeometryCollection"}

OtherOf(t) == [constructor |-> "Object", type |-> t]

\* -------------------------------------------------------------- camera
\* Fixed point: units per distance unit and per radian.
DistScale == 1000

AngScale == 1000000

\* x * num / den, rounded to the nearest unit.
Scaled(x, num, den) ==
  (x \div den) * num + ((x % den) * num + den \div 2) \div den

\* Math.PI, and PI_HALF = Math.PI / 2
PI == 3141593

PI_HALF == PI \div 2

\* var distance = 100000, distanceTarget = 100000
InitialDistance == 100000 * DistScale

\* The bounds zoom() keeps distanceTarget in.
MinDistance == 210 * DistScale

MaxDistance == 1000 * DistScale

\* zoom(100) / zoom(-100) of the arrow keys.
KeyZoom == 100 * DistScale

curZoomSpeed == 0

\* The closure variables as declared: overRenderer is undefined, no camera
\* yet (position Null), no drag listeners.
CameraVars ==
  [overRenderer |-> "undefined",
   mouse |-> [x |-> 0, y |-> 0],
   mouseOnDown |-> [x |-> 0, y |-> 0],
   rotation |-> [x |-> 0, y |-> 0],
   target |-> [x |-> Scaled(PI, 3, 2), y |-> Scaled(PI, 1, 6)],
   targetOnDown |-> [x |-> 0, y |-> 0],
   distance |-> InitialDistance,
   distanceTarget |-> InitialDistance,
   dragListeners |-> FALSE,
   position |-> [distance |-> 0, x |-> 0, y |-> 0]]

\* The camera position distance * (sin x cos y, sin y, cos x cos y), kept as
\* [distance, x, y]; its distance from the centre is `distance`.
CameraPosition(d, x, y) == [distance |-> d, x |-> x, y |-> y]

\* init(): camera = new PerspectiveCamera(...); camera.position.z = distance
NewCamera(c) == [c EXCEPT !.position = CameraPosition(c.distance, 0, 0)]

\* A zoom that moves the target the other way.
zoom_Inverted(c, delta) ==
  LET d1 == c.distanceTarget + delta
      d2 == IF d1 > MaxDistance THEN MaxDistance ELSE d1
      d3 == IF d2 < MinDistance THEN MinDistance ELSE d2
  IN [c EXCEPT !.distanceTarget = d3]

zoom(c, delta) ==
  LET d1 == c.distanceTarget - delta
      d2 == IF d1 > MaxDistance THEN MaxDistance ELSE d1
      d3 == IF d2 < MinDistance THEN MinDistance ELSE d2
  IN [c EXCEPT !.distanceTarget = d3]

onDocumentKeyDown(c, keyCode) ==
  CASE keyCode = 38 -> zoom(c, KeyZoom)
    [] keyCode = 40 -> zoom(c, 0 - KeyZoom)
    [] OTHER -> c

\* A wheel handler that zooms wherever the pointer is.
onMouseWheel_Ungated(c, wheelDeltaY) ==
  zoom(c, Scaled(wheelDeltaY * DistScale, 3, 10))

\* if (overRenderer) zoom(event.wheelDeltaY * 0.3)
onMouseWheel(c, wheelDeltaY) ==
  IF c.overRenderer = "true" THEN zoom(c, Scaled(wheelDeltaY * DistScale, 3, 10))
  ELSE c

onMouseDown(c, clientX, clientY) ==
  [c EXCEPT !.dragListeners = TRUE,
            !.mouseOnDown = [x |-> 0 - clientX, y |-> clientY],
            !.targetOnDown = c.target]

\* (mouse - mouseOnDown) * 0.005 * zoomDamp, zoomDamp = distance / 1000, in
\* 1/AngScale radian: 0.005 / 1000 is 1 / 200000.
DragAngle(pixels, distance) ==
  Scaled(distance, pixels, (200000 * DistScale) \div AngScale)

onMouseMove(c, clientX, clientY) ==
  LET mx == 0 - clientX
      my == clientY
      tx == c.targetOnDown.x + DragAngle(mx - c.mouseOnDown.x, c.distance)
      ty == c.targetOnDown.y + DragAngle(my - c.mouseOnDown.y, c.distance)
      ty1 == IF ty > PI_HALF THEN PI_HALF ELSE ty
      ty2 == IF ty1 < 0 - PI_HALF THEN 0 - PI_HALF ELSE ty1
  IN [c EXCEPT !.mouse = [x |-> mx, y |-> my],
               !.target = [x |-> tx, y |-> ty2]]

\* onMouseUp and onMouseOut remove the three drag listeners.
onMouseUp(c) == [c EXCEPT !.dragListeners = FALSE]

onMouseOut(c) == [c EXCEPT !.dragListeners = FALSE]

\* A render without the zoom(curZoomSpeed) it starts with.
render_NoZoom(c) ==
  LET z == c
      rx == z.rotation.x + Scaled(z.target.x - z.rotation.x, 1, 10)
      ry == z.rotation.y + Scaled(z.target.y - z.rotation.y, 1, 10)
      d == z.distance + Scaled(z.distanceTarget - z.distance, 3, 10)
  IN [z EXCEPT !.rotation = [x |-> rx, y |-> ry],
               !.distance = d,
               !.position = CameraPosition(d, rx, ry)]

\* render(): zoom(curZoomSpeed), then rotation and distance move towards
\* their targets and the camera is placed.
render(c) ==
  LET z == zoom(c, curZoomSpeed)
      rx == z.rotation.x + Scaled(z.target.x - z.rotation.x, 1, 10)
      ry == z.rotation.y + Scaled(z.target.y - z.rotation.y, 1, 10)
      d == z.distance + Scaled(z.distanceTarget - z.distance, 3, 10)
  IN [z EXCEPT !.rotation = [x |-> rx, y |-> ry],
               !.distance = d,
               !.position = CameraPosition(d, rx, ry)]

\* ---------------------------------------------------------- data globe
\* The globe of src/unnamed/part_001.  A geometry is [defined, vertices,
\* morphTargets]: the number of points added to it and the names of its
\* morph targets.  A name is [kind, id]: 'morphTarget' + id of addData or
\* 'morphPadding' + i of createPoints.  The points mesh keeps the
\* morphTargetDictionary (the names by index, from 0 at position 1) and the
\* morphTargetInfluences three.js gives a mesh whose geometry has morph
\* targets.  Times and influences are integers in units of 1/TimeDen.
TimeDen == 2

Undefined == -1

\* createPoints pads the morph targets when there are fewer than 8.
MorphSlots == 8

NoGeometry == [defined |-> FALSE, vertices |-> 0, morphTargets |-> <<>>]

NewGeometry == [defined |-> TRUE, vertices |-> 0, morphTargets |-> <<>>]

NoMesh == [defined |-> FALSE, object |-> Null, morphs |-> FALSE, vertices |-> 0,
           morphTargetDictionary |-> <<>>, morphTargetInfluences |-> <<>>]

\* new THREE.Mesh(geometry, material): the dictionary and the influences
\* (all 0) exist when the geometry has morph targets.  `object` is the mesh
\* in the heap.
NewMesh(geometry) ==
  [defined |-> TRUE,
   object |-> Null,
   morphs |-> Len(geometry.morphTargets) > 0,
   vertices |-> geometry.vertices,
   morphTargetDictionary |-> geometry.morphTargets,
   morphTargetInfluences |-> [i \in 1..Len(geometry.morphTargets) |-> 0]]

\* The data globe after construction; scenePoints is the number of points
\* meshes in the scene, triples the number of triples the last addData was
\* given (Undefined before any), ret and threw the outcome of the last call.
DataGlobe ==
  [is_animated |-> "undefined",
   baseGeometry |-> NoGeometry,
   morphTargetId |-> Undefined,
   points |-> NoMesh,
   scenePoints |-> 0,
   time |-> Undefined,
   triples |-> Undefined,
   ret |-> 0,
   threw |-> NoThrow]

\* What an operation of the data globe leaves: the globe's own fields and
\* the heap and registry.
Out(d, w) == [data |-> d, world |-> w]

\* The radius addPoint and addMultiPoint of part_001 place a sphere at, and
\* the radius of its earth and its lines.
DataPointRadius == 203

DataEarthRadius == 200

\* A number of the data array as addPoint receives it.
Number(v) == [constructor |-> "Number", value |-> v]

\* addPoint(input, opts) of part_001 up to its reading of the coordinates:
\* an array gives [lat, lng], a geojson object gives them flipped, and
\* anything else has no geometry to read coordinates of.
dataCoords(input) ==
  IF input.constructor = "Array"
    THEN [threw |-> NoThrow, lat |-> input.value[1], lng |-> input.value[2]]
  ELSE IF input.constructor = "Object"
    THEN [threw |-> NoThrow, lat |-> input.geometry.coordinates[2],
          lng |-> input.geometry.coordinates[1]]
  ELSE [threw |-> TypeError, lat |-> 0, lng |-> 0]

\* addPoint(input, opts) of part_001: a sphere at radius 203 above the
\* coordinates, registered and added to the scene.
dataAddPoint(w, input) ==
  LET c == dataCoords(input)
  IN IF c.threw # NoThrow THEN Throw(w, c.threw)
     ELSE LET point == Len(w.objs) + 1
              position == SurfacePoint(DataPointRadius, Deg(c.lng), Deg(c.lat))
              h1 == Append(w.objs, NewObject("Mesh", position, <<>>))
          IN addToActiveGeoJsons([w EXCEPT !.objs = h1], point)

\* The loop of addMultiPoint of part_001: lat = coords[ptIdx][0],
\* lng = coords[ptIdx][1].
RECURSIVE dataMultiPointLoop(_, _, _, _)
dataMultiPointLoop(h, points, coords, ptIdx) ==
  IF ptIdx > Len(coords) THEN h
  ELSE LET position == SurfacePoint(DataPointRadius, Deg(coords[ptIdx][2]),
                                    Deg(coords[ptIdx][1]))
           h1 == Append(h, NewObject("Mesh", position, <<>>))
       IN dataMultiPointLoop(Object3DAdd(h1, points, Len(h) + 1), points, coords, ptIdx + 1)

\* addMultiPoint(input, opts) of part_001: the coordinates of a geojson
\* object are copied, not flipped.
dataAddMultiPoint(w, input) ==
  LET coords == IF input.constructor = "Array" THEN input.value
                ELSE input.geometry.coordinates
      points == Len(w.objs) + 1
      h1 == Append(w.objs, NewObject("Object3D", NoPos, <<>>))
      h2 == dataMultiPointLoop(h1, points, coords, 1)
  IN addToActiveGeoJsons([w EXCEPT !.objs = h2], points)

\* input.geometry.coordinates.map(c => [c[1], c[0]])
Flipped(coordinates) == [i \in 1..Len(coordinates) |-> Reverse(coordinates[i])]

\* A vertex of a parsed line: lat = pt[0], lng = pt[1] (in 1/divs degree),
\* at radius 200.
ParsedVertex(pt) == SurfacePoint(DataEarthRadius, pt[2], pt[1])

\* parseLineString(input, opts): the line is returned, neither registered
\* nor added to the scene.
parseLineString(w, input) ==
  LET inPts == IF input.constructor = "Array" THEN input.value
               ELSE Flipped(input.geometry.coordinates)
  IN IF Len(inPts) < 2 THEN Throw(w, NeedTwoPoints)
     ELSE LET line == Len(w.objs) + 1
              vertices == [c \in 1..((Len(inPts) - 1) * divs) |->
                             ParsedVertex(LinePt(inPts, c))]
              h1 == Append(w.objs, NewObject("Line", NoPos, vertices))
          IN [w EXCEPT !.objs = h1, !.ret = line]

NeedExactlyTwoPoints == "Need 2 points for a line"

\* pts of a line of parseMultiLineString: the divs points from inPts[0]
\* towards inPts[1], then the last point of the line.
ParsedLineVertices(inPts) ==
  [c \in 1..(divs + 1) |->
     IF c <= divs THEN ParsedVertex(LinePt(inPts, c))
     ELSE ParsedVertex(<<Deg(inPts[Len(inPts)][1]), Deg(inPts[Len(inPts)][2])>>)]

\* The loop of parseMultiLineString: [objs, threw]; it throws at the first
\* line that has not exactly 2 points.
RECURSIVE parseMultiLineLoop(_, _, _, _)
parseMultiLineLoop(h, lines, inLns, inLnsIdx) ==
  IF inLnsIdx > Len(inLns) THEN [objs |-> h, threw |-> NoThrow]
  ELSE LET inPts == inLns[inLnsIdx]
       IN IF Len(inPts) # 2 THEN [objs |-> h, threw |-> NeedExactlyTwoPoints]
          ELSE LET line == Len(h) + 1
                   h1 == Append(h, NewObject("Line", NoPos, ParsedLineVertices(inPts)))
               IN parseMultiLineLoop(Object3DAdd(h1, lines, line), lines, inLns,
                                     inLnsIdx + 1)

\* parseMultiLineString(input, opts): the container of the lines is
\* returned, neither registered nor added to the scene.  On a throw the
\* container and the lines built so far are unreachable: the heap is left as
\* it was.
parseMultiLineString(w, input) ==
  LET inLns == IF input.constructor = "Array" THEN input.value
               ELSE [i \in 1..Len(input.geometry.coordinates) |->
                       Flipped(input.geometry.coordinates[i])]
      lines == Len(w.objs) + 1
      h1 == Append(w.objs, NewObject("Object3D", NoPos, <<>>))
      l == parseMultiLineLoop(h1, lines, inLns, 1)
  IN IF Threw(l) THEN Throw(w, l.threw)
     ELSE [w EXCEPT !.objs = l.objs, !.ret = lines]

\* parseFeature(node) reads node.geometry.type: a node without a geometry
\* is a TypeError.
parseFeature(w, node) ==
  IF "geometry" \notin DOMAIN node THEN Throw(w, TypeError)
  ELSE LET ftType == node.geometry.type
       IN CASE ftType = "Point" -> dataAddPoint(w, node)
            [] ftType = "MultiPoint" -> dataAddMultiPoint(w, node)
            [] ftType = "LineString" -> parseLineString(w, node)
            [] ftType = "MultiLineString" -> parseMultiLineString(w, node)
            [] OTHER -> [w EXCEPT !.ret = Null]

\* addGeoJson(geoJson) of part_001: parseFeature, then scene.add(feat); it
\* returns nothing.
dataAddGeoJson(w, geoJson) == SceneAdd(parseFeature(w, geoJson))

\* for (i = 0; i < data.length; i += step) addPoint(lat, lng, size, color,
\* geometry): addPoint takes the number lat as its input, and nothing is
\* added to the geometry.
RECURSIVE addPoints(_, _, _, _)
addPoints(w, dataArray, step, i) ==
  IF i > Len(dataArray) THEN w
  ELSE LET r == dataAddPoint(w, Number(dataArray[i]))
       IN IF Threw(r) THEN r
          ELSE addPoints(r, dataArray, step, i + step)

\* opts.animated || false;  opts.format || 'magnitude'
AnimatedOf(opt) == opt = "true"

FormatOf(opt) == IF opt = "undefined" THEN "magnitude" ELSE opt

FormatError == "error: format not supported"

addData(d, w, dataArray, optAnimated, optFormat) ==
  LET animated == AnimatedOf(optAnimated)
      format == FormatOf(optFormat)
      step == IF format = "magnitude" THEN 3 ELSE 4
      d1 == [d EXCEPT !.is_animated = IF animated THEN "true" ELSE "false",
                      !.ret = 0, !.threw = NoThrow]
  IN IF format \notin {"magnitude", "legend"}
       THEN Out([d1 EXCEPT !.threw = FormatError], w)
     ELSE IF animated
       THEN LET fresh == ~d1.baseGeometry.defined
                d2 == IF fresh THEN [d1 EXCEPT !.baseGeometry = NewGeometry] ELSE d1
                w1 == IF fresh THEN addPoints(w, dataArray, step, 1) ELSE w
            IN IF Threw(w1) THEN Out([d2 EXCEPT !.threw = w1.threw], w1)
               ELSE LET id == IF d2.morphTargetId = Undefined THEN 0
                              ELSE d2.morphTargetId + 1
                        d3 == [d2 EXCEPT !.morphTargetId = id]
                        w2 == addPoints(w1, dataArray, step, 1)
                    IN IF Threw(w2) THEN Out([d3 EXCEPT !.threw = w2.threw], w2)
                       ELSE Out([d3 EXCEPT !.baseGeometry.morphTargets =
                                   Append(@, [kind |-> "morphTarget", id |-> id])],
                                w2)
       ELSE LET w2 == addPoints(w, dataArray, step, 1)
            IN IF Threw(w2) THEN Out([d1 EXCEPT !.threw = w2.threw], w2)
               ELSE Out([d1 EXCEPT !.baseGeometry = NewGeometry], w2)

\* for (i = 0; i <= padding; i++) morphTargets.push('morphPadding' + i)
Padding(padding) == [i \in 1..(padding + 1) |-> [kind |-> "morphPadding", id |-> i - 1]]

\* createPoints(): a new points mesh of the base geometry, added to the
\* scene.
createPoints(d, w) ==
  LET d1 == [d EXCEPT !.ret = 0, !.threw = NoThrow]
  IN IF ~d1.baseGeometry.defined THEN Out(d1, w)
     ELSE LET g == d1.baseGeometry
              padded == IF d1.is_animated # "false" /\ Len(g.morphTargets) < MorphSlots
                          THEN [g EXCEPT !.morphTargets =
                                  @ \o Padding(MorphSlots - Len(g.morphTargets))]
                          ELSE g
              points == Len(w.objs) + 1
              h1 == Append(w.objs, NewObject("Mesh", NoPos, <<>>))
          IN Out([d1 EXCEPT !.baseGeometry = padded,
                            !.points = [NewMesh(padded) EXCEPT !.object = points],
                            !.scenePoints = @ + 1],
                 [w EXCEPT !.objs = Object3DAdd(h1, scene, points)])

\* init() of part_001, called as globe.init / globe.reset: a new scene with
\* the earth mesh and the atmosphere mesh, of which the points meshes made
\* so far are no part; this.points stays.
dataInit(d, w) ==
  LET g == InitScene(w.objs, DataEarthRadius, FALSE)
  IN [data |-> [d EXCEPT !.scenePoints = 0, !.ret = 0, !.threw = NoThrow],
      world |-> [w EXCEPT !.objs = g.objs],
      scene |-> g.scene]

\* The dictionary entries whose name has no 'morphPadding', as 0-based
\* indices.
validMorphs(mesh) ==
  {i - 1 : i \in {j \in DOMAIN mesh.morphTargetDictionary :
                    mesh.morphTargetDictionary[j].kind # "morphPadding"}}

\* influences[index] = value of a JavaScript array: an index past the end
\* lengthens the array.
SetInfluence(infl, index, value) ==
  IF index + 1 <= Len(infl) THEN [infl EXCEPT ![index + 1] = value]
  ELSE [i \in 1..(index + 1) |-> IF i = index + 1 THEN value
                                 ELSE IF i <= Len(infl) THEN infl[i] ELSE 0]

\* The setter of time, t in units of 1/TimeDen.  Without a points mesh, or
\* with one that has no morph targets, it reads a property of undefined.
setTime(d, t) ==
  LET d1 == [d EXCEPT !.ret = 0, !.threw = NoThrow]
  IN IF ~d1.points.defined \/ ~d1.points.morphs THEN [d1 EXCEPT !.threw = TypeError]
     ELSE LET valid == validMorphs(d1.points)
              l == Cardinality(valid) - 1
              scaledt == t * l + TimeDen
              index == scaledt \div TimeDen
              zeroed == [i \in DOMAIN d1.points.morphTargetInfluences |->
                           IF i - 1 \in valid THEN 0
                           ELSE d1.points.morphTargetInfluences[i]]
              lastIndex == index - 1
              leftover == scaledt - index * TimeDen
              i1 == IF lastIndex >= 0
                      THEN SetInfluence(zeroed, lastIndex, TimeDen - leftover)
                      ELSE zeroed
              i2 == SetInfluence(i1, index, leftover)
          IN [d1 EXCEPT !.points.morphTargetInfluences = i2, !.time = t]

\* The getter of time: this._time || 0
getTime(d) ==
  [d EXCEPT !.ret = IF d.time = Undefined THEN 0 ELSE d.time, !.threw = NoThrow]

\* ------------------------------------------------------------- actions
\* What a call leaves in `last`: the operation, its argument, what it
\* returned or threw, and the registry, the scene, the heap size, the camera
\* variables and the number of points meshes before it.
\* (`op` is named before `arg`: two records are told apart by the operation
\* before arguments of different shapes are compared.)
Record(op, input, ret, threw) ==
  [op |-> op, arg |-> input, ret |-> ret, threw |-> threw,
   regBefore |-> DOMAIN activeGeoJsons,
   sceneBefore |-> objs[scene].children,
   objsBefore |-> Len(objs),
   cameraBefore |-> camera,
   pointsBefore |-> data.scenePoints]

\* The bound of the heap: MaxObjs objects, the atmosphere mesh counted
\* whether it was created or not.
HeapLimit == IF disableAtmosphere THEN MaxObjs - 1 ELSE MaxObjs

\* A call of a geojson operation: its effect w on the heap and the registry.
Call(op, input, result) ==
  /\ \E w \in {result} :
       /\ Len(w.objs) <= HeapLimit
       /\ objs' = w.objs
       /\ activeGeoJsons' = w.reg
       /\ last' = Record(op, input, w.ret, w.threw)
  /\ UNCHANGED <<constructed, optAutoStart, autoStart, earthRadius, disableAtmosphere, scene, renderer,
                 thisScene, thisRenderer, pending, frames, animateCalls,
                 camera, pointer, events, data>>

Start == World(objs, activeGeoJsons)

AddPoint ==
  /\ constructed
  /\ \E form \in Forms :
       LET input == Input(form, "Point", Pt(1))
       IN Call("addPoint", input, addPoint(Start, input))

AddMultiPoint ==
  /\ constructed
  /\ \E form \in Forms, n \in 0..MaxPts :
       LET input == Input(form, "MultiPoint", Path(n))
       IN Call("addMultiPoint", input, addMultiPoint(Start, input))

AddLineString ==
  /\ constructed
  /\ \E form \in Forms, n \in 0..MaxPts :
       LET input == Input(form, "LineString", Path(n))
       IN Call("addLineString", input, addLineString(Start, input))

AddMultiLineString ==
  /\ constructed
  /\ \E form \in Forms, lens \in LineLens :
       LET input == Input(form, "MultiLineString", MultiLineCoords(lens))
       IN Call("addMultiLineString", input, addMultiLineString(Start, input))

AddFeature ==
  /\ constructed
  /\ \E d \in FeatureDescs :
       LET node == FeatureOf(d)
       IN Call("addFeature", node, addFeature(Start, node))

AddFeatureCollection ==
  /\ constructed
  /\ \/ \E ds \in Collections :
          LET node == CollectionOf(ds)
          IN Call("addFeatureCollection", node, addFeatureCollection(Start, node))
     \/ \E i \in 1..2 :
          LET node == FeatureOf(SampleDescs[i])
          IN Call("addFeatureCollection", node, addFeatureCollection(Start, node))

AddGeoJson ==
  /\ constructed
  /\ \/ \E i \in 1..Len(SampleDescs) :
          LET geoJson == FeatureOf(SampleDescs[i])
          IN Call("addGeoJson", geoJson, addGeoJson(Start, geoJson))
     \/ \E ds \in Collections :
          LET geoJson == CollectionOf(ds)
          IN Call("addGeoJson", geoJson, addGeoJson(Start, geoJson))
     \/ \E t \in OtherTypes :
          LET geoJson == OtherOf(t)
          IN Call("addGeoJson", geoJson, addGeoJson(Start, geoJson))

\* globe.animate(): requestAnimationFrame(animate); render();
Animate ==
  /\ constructed
  /\ animateCalls < MaxAnimate
  /\ frames < MaxFrames
  /\ animateCalls' = animateCalls + 1
  /\ pending' = pending + 1
  /\ frames' = frames + 1
  /\ camera' = render(camera)
  /\ last' = Record("animate", "", Null, NoThrow)
  /\ UNCHANGED <<constructed, optAutoStart, autoStart, earthRadius, disableAtmosphere, objs, scene,
                 renderer, thisScene, thisRenderer, activeGeoJsons,
                 pointer, events, data>>

\* The browser runs a scheduled animate callback: it schedules the next one
\* and renders.
Frame ==
  /\ pending > 0
  /\ frames < MaxFrames
  /\ frames' = frames + 1
  /\ camera' = render(camera)
  /\ last' = Record("frame", "", Null, NoThrow)
  /\ UNCHANGED <<constructed, optAutoStart, autoStart, earthRadius, disableAtmosphere, objs, scene,
                 renderer, thisScene, thisRenderer, activeGeoJsons, pending,
                 animateCalls, pointer, events, data>>

\* globe.init() / globe.reset(): a new scene, camera and renderer; this.scene
\* and this.renderer keep the objects of the construction.  The handlers
\* registered again are the same functions (registered once) or set
\* overRenderer as the ones of the construction do.
Reset ==
  /\ constructed
  /\ LET g == InitScene(objs, earthRadius, disableAtmosphere)
     IN /\ Len(g.objs) <= HeapLimit
        /\ objs' = g.objs
        /\ scene' = g.scene
  /\ renderer' = TRUE
  /\ camera' = NewCamera(camera)
  /\ last' = Record("init", "", Null, NoThrow)
  /\ UNCHANGED <<constructed, optAutoStart, autoStart, earthRadius, disableAtmosphere, thisScene,
                 thisRenderer, activeGeoJsons, pending, frames, animateCalls,
                 pointer, events, data>>

\* ------------------------------------------------------- input events
KeyCodes == {38, 40, 13}

WheelDeltas == {120, -120, 0}

\* clientX, clientY of mouse events.
ClientPts == {<<100, 100>>, <<140, 80>>}

\* An input event handled by the camera control.
Event(op, arg, c) ==
  /\ constructed
  /\ events < MaxEvents
  /\ events' = events + 1
  /\ camera' = c
  /\ last' = Record(op, arg, Null, NoThrow)
  /\ UNCHANGED <<constructed, optAutoStart, autoStart, earthRadius, disableAtmosphere, objs, scene,
                 renderer, thisScene, thisRenderer, activeGeoJsons, pending,
                 frames, animateCalls, data>>

\* keydown on the document.
KeyDown ==
  \E keyCode \in KeyCodes :
    /\ Event("keydown", keyCode, onDocumentKeyDown(camera, keyCode))
    /\ UNCHANGED pointer

\* mousewheel on the container.
MouseWheel ==
  \E wheelDeltaY \in WheelDeltas :
    /\ Event("mousewheel", wheelDeltaY, onMouseWheel(camera, wheelDeltaY))
    /\ UNCHANGED pointer

\* mouseover on the container: overRenderer = true.
MouseOver ==
  /\ Event("mouseover", 0, [camera EXCEPT !.overRenderer = "true"])
  /\ pointer' = "over"

\* mouseout on the container: overRenderer = false, and onMouseOut while its
\* listener is registered.
MouseOut ==
  /\ Event("mouseout", 0,
           [(IF camera.dragListeners THEN onMouseOut(camera) ELSE camera)
              EXCEPT !.overRenderer = "false"])
  /\ pointer' = "out"

MouseDown ==
  \E pt \in ClientPts :
    /\ Event("mousedown", pt, onMouseDown(camera, pt[1], pt[2]))
    /\ UNCHANGED pointer

\* mousemove reaches onMouseMove only between a mousedown and the next
\* mouseup or mouseout.
MouseMove ==
  /\ camera.dragListeners
  /\ \E pt \in ClientPts :
       /\ Event("mousemove", pt, onMouseMove(camera, pt[1], pt[2]))
       /\ UNCHANGED pointer

MouseUp ==
  /\ camera.dragListeners
  /\ Event("mouseup", 0, onMouseUp(camera))
  /\ UNCHANGED pointer

\* ------------------------------------------------- data operations
\* (lat, lng, magnitude)
DataTriple == <<10, 20, 1>>

RECURSIVE DataArray(_)
DataArray(n) == IF n = 0 THEN <<>> ELSE DataArray(n - 1) \o DataTriple

AnimatedOpts == {"undefined", "true", "false"}

FormatOpts == {"undefined", "magnitude", "legend", "other"}

Times == 0..TimeDen

\* A call on the data globe: what it leaves of the globe's fields (d) and of
\* the heap and the registry (w).
DataCall(op, arg, d, w) ==
  /\ constructed
  /\ Len(d.baseGeometry.morphTargets) <= MaxTargets + MorphSlots + 1
  /\ d.morphTargetId < MaxTargets
  /\ d.scenePoints <= MaxMeshes
  /\ Len(w.objs) <= MaxDataObjs
  /\ data' = d
  /\ objs' = w.objs
  /\ activeGeoJsons' = w.reg
  /\ last' = Record(op, arg, d.ret, d.threw)
  /\ UNCHANGED <<constructed, optAutoStart, autoStart, earthRadius, disableAtmosphere,
                 renderer, thisScene, thisRenderer, pending,
                 frames, animateCalls, pointer, events>>

AddData ==
  \E n \in 0..MaxTriples, optAnimated \in AnimatedOpts, optFormat \in FormatOpts :
    LET r == addData(data, Start, DataArray(n), optAnimated, optFormat)
    IN /\ DataCall("addData",
                   [triples |-> n, animated |-> optAnimated, format |-> optFormat],
                   [r.data EXCEPT !.triples = n], r.world)
       /\ UNCHANGED <<scene, camera>>

CreatePoints ==
  LET r == createPoints(data, Start)
  IN /\ DataCall("createPoints", 0, r.data, r.world)
     /\ UNCHANGED <<scene, camera>>

\* globe.time = t.  In src/globe/globe.js nothing assigns this.points, and
\* the setter throws.
SetTime ==
  \E t \in Times :
    /\ DataCall("setTime", t, setTime(data, t), Start)
    /\ UNCHANGED <<scene, camera>>

GetTime ==
  /\ DataCall("getTime", 0, getTime(data), Start)
  /\ UNCHANGED <<scene, camera>>

\* globe.init() / globe.reset() of part_001.
DataReset ==
  LET r == dataInit(data, Start)
  IN /\ DataCall("init", 0, r.data, r.world)
     /\ scene' = r.scene
     /\ camera' = NewCamera(camera)

\* A geojson operation of part_001: its effect w on the heap and the
\* registry, and what it returned or threw.
DataGeoCall(op, input, w) ==
  /\ DataCall(op, input, [data EXCEPT !.ret = w.ret, !.threw = w.threw], w)
  /\ UNCHANGED <<scene, camera>>

DataAddPoint ==
  \E form \in Forms :
    LET input == Input(form, "Point", Pt(1))
    IN DataGeoCall("addPoint", input, dataAddPoint(Start, input))

DataAddMultiPoint ==
  \E form \in Forms, n \in 0..MaxPts :
    LET input == Input(form, "MultiPoint", Path(n))
    IN DataGeoCall("addMultiPoint", input, dataAddMultiPoint(Start, input))

ParseLineString ==
  \E form \in Forms, n \in 0..MaxPts :
    LET input == Input(form, "LineString", Path(n))
    IN DataGeoCall("parseLineString", input, parseLineString(Start, input))

ParseMultiLineString ==
  \E form \in Forms, lens \in LineLens :
    LET input == Input(form, "MultiLineString", MultiLineCoords(lens))
    IN DataGeoCall("parseMultiLineString", input, parseMultiLineString(Start, input))

DataAddGeoJson ==
  \/ \E i \in 1..Len(SampleDescs) :
       LET geoJson == FeatureOf(SampleDescs[i])
       IN DataGeoCall("addGeoJson", geoJson, dataAddGeoJson(Start, geoJson))
  \/ \E ds \in Collections :
       LET geoJson == CollectionOf(ds)
       IN DataGeoCall("addGeoJson", geoJson, dataAddGeoJson(Start, geoJson))

\* ---------------------------------------------------------- construction
Containers == {"element", "null"}

AutoStartOpts == {"undefined", "true", "false", "1"}

RadiusOpts == {0, 150}

DisableOpts == {"undefined", "true", "false"}

\* The state new DAT.Globe(container, opts) leaves.  init() reads
\* container.style first: with a null container it throws, the constructor
\* ends there and nothing of the globe is set.
Construct(container, optA, optR, optD) ==
  LET ok == container # "null"
      g == InitScene(<<>>, EarthRadiusOf(optR), DisableAtmosphereOf(optD))
      start == ok /\ AutoStartOf(optA)
  IN /\ constructed = ok
     /\ optAutoStart = optA
     /\ autoStart = AutoStartOf(optA)
     /\ earthRadius = EarthRadiusOf(optR)
     /\ disableAtmosphere = DisableAtmosphereOf(optD)
     /\ objs = IF ok THEN g.objs ELSE <<>>
     /\ scene = IF ok THEN g.scene ELSE Null
     /\ renderer = ok
     /\ thisScene = IF ok THEN g.scene ELSE Null
     /\ thisRenderer = ok
     /\ activeGeoJsons = <<>>
     /\ pending = IF start THEN 1 ELSE 0
     /\ frames = IF start THEN 1 ELSE 0
     /\ animateCalls = 0
     /\ camera = IF start THEN render(NewCamera(CameraVars))
                 ELSE IF ok THEN NewCamera(CameraVars) ELSE CameraVars
     /\ pointer = "none"
     /\ events = 0
     /\ data = DataGlobe
     /\ last = [op |-> "new", arg |-> container, ret |-> Null,
                threw |-> IF ok THEN NoThrow ELSE TypeError,
                regBefore |-> {}, sceneBefore |-> <<>>, objsBefore |-> 0,
                cameraBefore |-> CameraVars, pointsBefore |-> 0]

Init ==
  \E container \in Containers, optA \in AutoStartOpts, optR \in RadiusOpts,
     optD \in DisableOpts :
    Construct(container, optA, optR, optD)

\* The options of the globes the geojson operations are tried on:
\* <<earthRadius, disableAtmosphere>>.
GeoOpts == {<<0, "undefined">>, <<150, "undefined">>, <<0, "true">>}

\* A globe in a container, not auto-started.
InitGeo == \E o \in GeoOpts : Construct("element", "false", o[1], o[2])

Next ==
  \/ Animate
  \/ Frame
  \/ Reset
  \/ AddPoint
  \/ AddMultiPoint
  \/ AddLineString
  \/ AddMultiLineString
  \/ AddFeature
  \/ AddFeatureCollection
  \/ AddGeoJson
  \/ KeyDown
  \/ MouseWheel
  \/ MouseOver
  \/ MouseOut
  \/ MouseDown
  \/ MouseMove
  \/ MouseUp
  \/ SetTime
  \/ GetTime

Spec == Init /\ [][Next]_vars

\* The specifications below restrict Next to the operations a property is
\* about.

\* Construction and the animation loop.
NextLife ==
  \/ Animate
  \/ Frame
  \/ Reset

SpecLife == Init /\ [][NextLife]_vars

\* The four shape operations.
NextShapes ==
  \/ AddPoint
  \/ AddMultiPoint
  \/ AddLineString
  \/ AddMultiLineString

SpecShapes == InitGeo /\ [][NextShapes]_vars

\* addFeature.
SpecFeature == InitGeo /\ [][AddFeature]_vars

\* The entry points for whole documents.
NextGeoJson ==
  \/ AddFeatureCollection
  \/ AddGeoJson

SpecGeoJson == InitGeo /\ [][NextGeoJson]_vars

\* The camera control: input events and render steps.  The globe is in a
\* container, auto-started or not.
InitCamera ==
  \E optA \in {"undefined", "false"}, optD \in DisableOpts :
    Construct("element", optA, 0, optD)

NextCamera ==
  \/ KeyDown
  \/ MouseWheel
  \/ MouseOver
  \/ MouseOut
  \/ MouseDown
  \/ MouseMove
  \/ MouseUp
  \/ Animate
  \/ Frame
  \/ Reset

SpecCamera == InitCamera /\ [][NextCamera]_vars

\* The globe of src/unnamed/part_001, which has neither an earthRadius nor a
\* disableAtmosphere option, in a container and not auto-started.
InitData == Construct("element", "false", 0, "undefined")

\* Every operation of the globe of part_001.  Its animation loop and its
\* camera control are those of globe.js, line for line.
NextDataGlobe ==
  \/ Animate
  \/ Frame
  \/ DataReset
  \/ AddData
  \/ CreatePoints
  \/ SetTime
  \/ GetTime
  \/ DataAddPoint
  \/ DataAddMultiPoint
  \/ ParseLineString
  \/ ParseMultiLineString
  \/ DataAddGeoJson
  \/ KeyDown
  \/ MouseWheel
  \/ MouseOver
  \/ MouseOut
  \/ MouseDown
  \/ MouseMove
  \/ MouseUp

SpecDataGlobe == InitData /\ [][NextDataGlobe]_vars

\* The data of the globe of part_001: addData, createPoints, the time
\* property, and init / reset, which takes the points meshes out of the scene.
NextData ==
  \/ AddData
  \/ CreatePoints
  \/ SetTime
  \/ GetTime
  \/ DataReset

SpecData == InitData /\ [][NextData]_vars

\* ------------------------------------------------------------ properties
SupportedTypes == {"Point", "MultiPoint", "LineString", "MultiLineString"}

ShapeOps == {"addPoint", "addMultiPoint", "addLineString", "addMultiLineString"}

SceneChildren == objs[scene].children

TimesInScene(o) == Cardinality({i \in DOMAIN SceneChildren : SceneChildren[i] = o})

Registered(o) == o \in DOMAIN activeGeoJsons /\ activeGeoJsons[o] = o

RegSize == Cardinality(DOMAIN activeGeoJsons)

\* The last call added nothing to the registry or to the scene.
NothingAdded ==
  /\ DOMAIN activeGeoJsons = last.regBefore
  /\ SceneChildren = last.sceneBefore

\* The coordinate array an input carries, as written by the caller.
Carried(input) ==
  IF input.constructor = "Array" THEN input.value ELSE input.geometry.coordinates

\* Every line of the feature has at least 2 points.
WellFormed(node) ==
  CASE node.geometry.type = "LineString" -> Len(node.geometry.coordinates) >= 2
    [] node.geometry.type = "MultiLineString" ->
         \A i \in 1..Len(node.geometry.coordinates) :
           Len(node.geometry.coordinates[i]) >= 2
    [] OTHER -> TRUE

\* Object o is the three.js object of the feature: a sphere, a group of
\* spheres, a line or a group of lines at the feature's coordinates.
Corresponds(o, node) ==
  LET c == node.geometry.coordinates
      t == node.geometry.type
      kids == objs[o].children
  IN CASE t = "Point" ->
            objs[o].type = "Mesh" /\ objs[o].position = PointPosition(c)
       [] t = "MultiPoint" ->
            /\ objs[o].type = "Object3D"
            /\ Len(kids) = Len(c)
            /\ \A i \in 1..Len(c) :
                 /\ objs[kids[i]].type = "Mesh"
                 /\ objs[kids[i]].position = MultiPointPosition(c[i])
       [] t = "LineString" ->
            objs[o].type = "Line" /\ objs[o].vertices = LineVertices(c)
       [] t = "MultiLineString" ->
            /\ objs[o].type = "Object3D"
            /\ Len(kids) = Len(c)
            /\ \A i \in 1..Len(c) :
                 /\ objs[kids[i]].type = "Line"
                 /\ objs[kids[i]].vertices = LineVertices(c[i])
       [] OTHER -> FALSE

\* The last call returned a new object, in the scene once and registered
\* under its uuid, and the registry grew by that one entry.
ReturnedAndRegisteredOnce ==
  /\ last.threw = NoThrow
  /\ last.ret # Null
  /\ TimesInScene(last.ret) = 1
  /\ Registered(last.ret)
  /\ last.ret \notin last.regBefore
  /\ DOMAIN activeGeoJsons = last.regBefore \cup {last.ret}
  /\ RegSize = Cardinality(last.regBefore) + 1

ReturnedNullUnchanged ==
  /\ last.threw = NoThrow
  /\ last.ret = Null
  /\ NothingAdded

\* C1 as stated: addFeature returns the corresponding object, registered
\* exactly once and in the scene, for every node of a supported geometry
\* type, and returns null without any change for any other type.
C1_Original ==
  last.op = "addFeature" =>
    IF last.arg.geometry.type \in SupportedTypes
      THEN ReturnedAndRegisteredOnce /\ Corresponds(last.ret, last.arg)
      ELSE ReturnedNullUnchanged

\* C1 amended: the same for every node of a supported geometry type whose
\* lines all have at least 2 points; a LineString or MultiLineString with a
\* line of fewer than 2 points makes addFeature throw and change nothing;
\* any other type returns null without any change.
C1_AddFeature ==
  last.op = "addFeature" =>
    IF last.arg.geometry.type \in SupportedTypes
      THEN IF WellFormed(last.arg)
             THEN ReturnedAndRegisteredOnce /\ Corresponds(last.ret, last.arg)
             ELSE last.threw = NeedTwoPoints /\ NothingAdded
      ELSE ReturnedNullUnchanged

\* A MultiPoint feature added to a globe that already holds objects.
C1_Witness ==
  /\ last.op = "addFeature"
  /\ last.arg.geometry.type = "MultiPoint"
  /\ Len(last.arg.geometry.coordinates) >= 1
  /\ last.regBefore # {}
  /\ last.ret # Null

SupportedFeatures(feats) ==
  SelectSeq(feats, LAMBDA f : f.geometry.type \in SupportedTypes)

\* The container the last call built holds, in input order, the objects of
\* the supported features; it and they are registered, it is in the scene,
\* and the registry grew by k + 1 entries.
CollectionBuilt(container, feats) ==
  LET sup == SupportedFeatures(feats)
      kids == objs[container].children
  IN /\ container # Null
     /\ objs[container].type = "Object3D"
     /\ Len(kids) = Len(sup)
     /\ \A i \in 1..Len(sup) :
          /\ Corresponds(kids[i], sup[i])
          /\ Registered(kids[i])
          /\ kids[i] \notin last.regBefore
     /\ Registered(container)
     /\ container \notin last.regBefore
     /\ TimesInScene(container) = 1
     /\ RegSize = Cardinality(last.regBefore) + Len(sup) + 1

\* C2 as stated: addFeatureCollection of a FeatureCollection returns one
\* container holding exactly the objects of the supported features, in input
\* order; the container is registered and in the scene; k supported features
\* add k + 1 registry entries.
C2_Original ==
  (last.op = "addFeatureCollection" /\ last.arg.type = "FeatureCollection") =>
    last.threw = NoThrow /\ CollectionBuilt(last.ret, last.arg.features)

\* C2 amended: the same for a FeatureCollection whose lines all have at
\* least 2 points; a feature with a shorter line makes addFeatureCollection
\* throw, and the container is then neither returned nor registered.
C2_AddFeatureCollection ==
  (last.op = "addFeatureCollection" /\ last.arg.type = "FeatureCollection") =>
    IF \A i \in 1..Len(last.arg.features) : WellFormed(last.arg.features[i])
      THEN last.threw = NoThrow /\ CollectionBuilt(last.ret, last.arg.features)
      ELSE /\ last.threw = NeedTwoPoints
           /\ last.ret = Null
           /\ ~Registered(last.objsBefore + 1)

\* A collection of two supported features of different kinds.
C2_Witness ==
  /\ last.op = "addFeatureCollection"
  /\ last.ret # Null
  /\ Len(objs[last.ret].children) = 2
  /\ objs[objs[last.ret].children[1]].type = "Mesh"
  /\ objs[objs[last.ret].children[2]].type = "Line"

IsSupportedFeature(geoJson) ==
  geoJson.type = "Feature" /\ geoJson.geometry.type \in SupportedTypes

\* C3 as stated (and as the doc comment of addGeoJson has it): addGeoJson
\* adds nothing to the scene or to activeGeoJsons unless its input is a
\* single Feature of a supported geometry type; a FeatureCollection adds
\* nothing.
C3_Original ==
  (last.op = "addGeoJson" /\ ~IsSupportedFeature(last.arg)) => NothingAdded

\* The last call threw `message` and left the registry, the scene and the
\* heap as they were.
RejectedWith(message) ==
  /\ last.threw = message
  /\ NothingAdded
  /\ Len(objs) = last.objsBefore

\* C4: addFeatureCollection throws on a node whose type is not
\* FeatureCollection, addGeoJson throws on a type that is neither Feature
\* nor FeatureCollection, and neither changes the scene or the registry.
C4_WrongTypeRejected ==
  /\ (last.op = "addFeatureCollection" /\ last.arg.type # "FeatureCollection")
       => RejectedWith(UnexpectedType)
  /\ (last.op = "addGeoJson" /\ last.arg.type \notin {"Feature", "FeatureCollection"})
       => RejectedWith(UnknownType)

\* An object of unknown type given to a globe that already holds objects.
C4_Witness ==
  /\ last.op = "addGeoJson"
  /\ last.arg.type \notin {"Feature", "FeatureCollection"}
  /\ last.regBefore # {}

HasShortLine(lines) == \E i \in 1..Len(lines) : Len(lines[i]) < 2

\* C5: addLineString throws 'Need at least 2 points for a line' on fewer
\* than 2 points, addMultiLineString throws it when one of its lines has
\* fewer than 2 points, and nothing is added to the scene or the registry.
C5_ShortLineRejected ==
  /\ (last.op = "addLineString" /\ Len(Carried(last.arg)) < 2)
       => RejectedWith(NeedTwoPoints)
  /\ (last.op = "addMultiLineString" /\ HasShortLine(Carried(last.arg)))
       => RejectedWith(NeedTwoPoints)

\* A multi-line whose first line is valid and whose second is too short.
C5_Witness ==
  /\ last.op = "addMultiLineString"
  /\ Len(Carried(last.arg)) >= 2
  /\ Len(Carried(last.arg)[1]) >= 2
  /\ Len(Carried(last.arg)[2]) < 2
  /\ last.regBefore # {}

\* The positions an object shows: its own, its vertices, and those of its
\* children.
Shape(h, o) ==
  [position |-> h[o].position,
   vertices |-> h[o].vertices,
   parts |-> [i \in 1..Len(h[o].children) |->
                [position |-> h[h[o].children[i]].position,
                 vertices |-> h[h[o].children[i]].vertices]]]

Apply(op, w, input) ==
  CASE op = "addPoint" -> addPoint(w, input)
    [] op = "addMultiPoint" -> addMultiPoint(w, input)
    [] op = "addLineString" -> addLineString(w, input)
    [] op = "addMultiLineString" -> addMultiLineString(w, input)

\* The same coordinates in the other form: the Feature around an array, the
\* bare array of a Feature.
OtherForm(input, gtype) ==
  IF input.constructor = "Array"
    THEN Input("Object", gtype, input.value)
    ELSE Input("Array", gtype, input.geometry.coordinates)

GeometryType(op) ==
  CASE op = "addPoint" -> "Point"
    [] op = "addMultiPoint" -> "MultiPoint"
    [] op = "addLineString" -> "LineString"
    [] op = "addMultiLineString" -> "MultiLineString"

\* C6: the array form and the Feature form of the same coordinates give the
\* same positions: calling the operation of the last call with the other
\* form of its input throws as it did, or builds the same shape.
C6_FormsAgree ==
  last.op \in ShapeOps =>
    \A r \in {Apply(last.op, World(objs, activeGeoJsons),
                     OtherForm(last.arg, GeometryType(last.op)))} :
      /\ r.threw = last.threw
      /\ last.threw = NoThrow => Shape(r.objs, r.ret) = Shape(objs, last.ret)

\* A multi-point of at least 2 coordinates given as a bare array.
C6_Witness ==
  /\ last.op = "addMultiPoint"
  /\ last.arg.constructor = "Array"
  /\ Len(last.arg.value) >= 2
  /\ last.ret # Null

\* The objects the operations created (not the scene, the earth mesh or the
\* atmosphere mesh, which exists unless the atmosphere is disabled).
Created == {o \in DOMAIN objs : o > scene + (IF disableAtmosphere THEN 1 ELSE 2)}

\* C7 as stated: every point sphere and every line vertex is at distance
\* earthRadius from the centre.
C7_AtEarthRadius ==
  \A o \in Created :
    /\ objs[o].type = "Mesh" => objs[o].position.r = earthRadius
    /\ objs[o].type = "Line" =>
         \A c \in 1..Len(objs[o].vertices) : objs[o].vertices[c].r = earthRadius

\* The line object o runs from the first to the last point of inPts.
RunsFromFirstToLast(o, inPts) ==
  LET v == objs[o].vertices
  IN /\ Len(v) >= 2
     /\ v[1] = PointPosition(inPts[1])
     /\ v[Len(v)] = PointPosition(inPts[Len(inPts)])

\* C8 as stated: the line built for n >= 2 points starts at the projection
\* of the first input point and ends at the projection of the last.
C8_LineCoversInput ==
  /\ (last.op = "addLineString" /\ last.threw = NoThrow)
       => RunsFromFirstToLast(last.ret, Carried(last.arg))
  /\ (last.op = "addMultiLineString" /\ last.threw = NoThrow)
       => \A i \in 1..Len(Carried(last.arg)) :
            RunsFromFirstToLast(objs[last.ret].children[i], Carried(last.arg)[i])

\* C9: with opts.autoStart omitted or true the constructor starts the
\* animation loop (a callback stays scheduled and a render step has run);
\* with opts.autoStart false nothing is scheduled and no render step happens
\* before animate() is called.
C9_AutoStart ==
  /\ (constructed /\ optAutoStart \in {"undefined", "true"})
       => pending >= 1 /\ frames >= 1
  /\ (constructed /\ optAutoStart = "false" /\ animateCalls = 0)
       => pending = 0 /\ frames = 0

\* The loop the constructor started has rendered again, with no call of
\* animate().
C9_Witness ==
  /\ constructed
  /\ optAutoStart = "undefined"
  /\ animateCalls = 0
  /\ frames >= 2

\* C10 as stated: new DAT.Globe(null, opts) completes and yields a globe
\* whose scene and renderer are set.
C10_NullContainer ==
  (last.op = "new" /\ last.arg = "null") =>
    /\ constructed
    /\ last.threw = NoThrow
    /\ thisScene # Null
    /\ thisRenderer
\* ------------------------------------------------- camera properties
Clamp(x, lo, hi) == IF x < lo THEN lo ELSE IF x > hi THEN hi ELSE x

Abs(x) == IF x < 0 THEN 0 - x ELSE x

\* The last step ran render(): an animation frame, an animate() call or the
\* animate() of an auto-started construction.
Rendered ==
  \/ last.op \in {"frame", "animate"}
  \/ last.op = "new" /\ constructed /\ autoStart

\* C11: keyCode 38 sets distanceTarget to clamp(distanceTarget - 100, 210,
\* 1000), keyCode 40 to clamp(distanceTarget + 100, 210, 1000), any other key
\* leaves distanceTarget, target, rotation and distance as they were,
\* wherever the pointer is.
C11_Keys ==
  last.op = "keydown" =>
    LET b == last.cameraBefore
    IN /\ last.arg = 38 =>
            camera.distanceTarget =
              Clamp(b.distanceTarget - 100 * DistScale, 210 * DistScale, 1000 * DistScale)
       /\ last.arg = 40 =>
            camera.distanceTarget =
              Clamp(b.distanceTarget + 100 * DistScale, 210 * DistScale, 1000 * DistScale)
       /\ last.arg \notin {38, 40} =>
            /\ camera.distanceTarget = b.distanceTarget
            /\ camera.target = b.target
            /\ camera.rotation = b.rotation
            /\ camera.distance = b.distance

\* The up key moved distanceTarget by 100 while the pointer was not over the
\* container.
C11_Witness ==
  /\ last.op = "keydown"
  /\ last.arg = 38
  /\ camera.overRenderer # "true"
  /\ camera.distanceTarget = last.cameraBefore.distanceTarget - 100 * DistScale

\* C14: a mousewheel event changes distanceTarget, by -0.3 * wheelDeltaY and
\* clamped to [210, 1000], only when the last of the mouseover / mouseout
\* events on the container was a mouseover; before any mouseover and after a
\* mouseout it leaves distanceTarget as it was.
C14_WheelGated ==
  last.op = "mousewheel" =>
    LET b == last.cameraBefore
    IN IF pointer = "over"
         THEN camera.distanceTarget =
                Clamp(b.distanceTarget - (3 * last.arg * DistScale) \div 10,
                      210 * DistScale, 1000 * DistScale)
         ELSE camera.distanceTarget = b.distanceTarget

\* A wheel event over the container moved distanceTarget by 36, and one after
\* a mouseout would not have.
C14_Witness ==
  /\ last.op = "mousewheel"
  /\ pointer = "over"
  /\ last.arg = 120
  /\ camera.distanceTarget = last.cameraBefore.distanceTarget - 36 * DistScale

\* v moved towards t by num/10 of the gap (to the nearest unit), not past t.
MovedBy(v0, v1, t, num) ==
  /\ Abs(10 * (v1 - v0) - num * (t - v0)) <= 5
  /\ v0 <= t => (v0 <= v1 /\ v1 <= t)
  /\ v0 >= t => (v0 >= v1 /\ v1 >= t)

\* The gap |t1 - v1| after the step against the gap |t0 - v0| before it: it
\* never grows, and it shrinks when it is not 0.
GapShrinks(v0, t0, v1, t1) ==
  /\ Abs(t1 - v1) <= Abs(t0 - v0)
  /\ t0 # v0 => Abs(t1 - v1) < Abs(t0 - v0)

\* The same against a target that the step may have clamped, in fixed point:
\* the gap never grows, and it shrinks when num/10 of it is at least half a
\* unit (below that the step rounds to 0).
GapShrinksRounded(v0, t0, v1, t1, num) ==
  /\ Abs(t1 - v1) <= Abs(t0 - v0)
  /\ num * Abs(t0 - v0) >= 5 => Abs(t1 - v1) < Abs(t0 - v0)

\* C15 as stated: a render step moves rotation by 10% and distance by 30%
\* of the gap to target and distanceTarget as they are before the step, the
\* gaps shrink, and after a render step the camera is not closer than 210.
C15_Original ==
  /\ Rendered =>
       LET b == last.cameraBefore
       IN /\ MovedBy(b.rotation.x, camera.rotation.x, b.target.x, 1)
          /\ MovedBy(b.rotation.y, camera.rotation.y, b.target.y, 1)
          /\ MovedBy(b.distance, camera.distance, b.distanceTarget, 3)
          /\ GapShrinks(b.rotation.x, b.target.x, camera.rotation.x, camera.target.x)
          /\ GapShrinks(b.rotation.y, b.target.y, camera.rotation.y, camera.target.y)
          /\ GapShrinks(b.distance, b.distanceTarget,
                        camera.distance, camera.distanceTarget)
  /\ frames >= 1 => camera.position.distance >= 210 * DistScale

\* C15: a render step first clamps distanceTarget to [210, 1000], then moves
\* rotation by 10% and distance by 30% of the gap to target and to the
\* clamped distanceTarget, never past them; the gaps to these targets never
\* grow and shrink whenever the step does not round to 0, and after a render
\* step the camera is not closer than 210.
C15_Damping ==
  /\ Rendered =>
       LET b == last.cameraBefore
           dt == Clamp(b.distanceTarget, 210 * DistScale, 1000 * DistScale)
       IN /\ camera.distanceTarget = dt
          /\ camera.target = b.target
          /\ MovedBy(b.rotation.x, camera.rotation.x, b.target.x, 1)
          /\ MovedBy(b.rotation.y, camera.rotation.y, b.target.y, 1)
          /\ MovedBy(b.distance, camera.distance, dt, 3)
          /\ GapShrinksRounded(b.rotation.x, b.target.x,
                               camera.rotation.x, camera.target.x, 1)
          /\ GapShrinksRounded(b.rotation.y, b.target.y,
                               camera.rotation.y, camera.target.y, 1)
          /\ GapShrinksRounded(b.distance, dt,
                               camera.distance, camera.distanceTarget, 3)
  /\ frames >= 1 => camera.position.distance >= 210 * DistScale

\* A second render step with the targets in range and away from the values,
\* after a drag has moved the target.
C15_Witness ==
  /\ last.op = "frame"
  /\ frames >= 2
  /\ last.cameraBefore.distanceTarget <= 1000 * DistScale
  /\ last.cameraBefore.distanceTarget # last.cameraBefore.distance
  /\ last.cameraBefore.target.x # CameraVars.target.x
  /\ last.cameraBefore.target.x # last.cameraBefore.rotation.x

\* --------------------------------------------------- data properties
RECURSIVE SumOf(_)
SumOf(q) == IF q = <<>> THEN 0 ELSE Head(q) + SumOf(Tail(q))

\* The 0-based indices of the morph targets of the points mesh that are not
\* padding.
NonPadding ==
  {i - 1 : i \in {j \in DOMAIN data.points.morphTargetDictionary :
                    data.points.morphTargetDictionary[j].kind = "morphTarget"}}

\* The influence at a 0-based index (0 past the end of the array).
Influence(i) ==
  IF i + 1 \in DOMAIN data.points.morphTargetInfluences
    THEN data.points.morphTargetInfluences[i + 1] ELSE 0

\* C12 as stated: with n >= 1 non-padding morph targets, time = t leaves the
\* non-padding influences 0 except at floor(t(n-1)) and floor(t(n-1)) + 1,
\* which hold 1 - f and f; all influences sum to 1; time then reads t, and
\* reads 0 before any assignment.
C12_TimeMorph ==
  /\ (last.op = "setTime" /\ data.points.defined /\ NonPadding # {}) =>
       LET n == Cardinality(NonPadding)
           k == (last.arg * (n - 1)) \div TimeDen
           f == (last.arg * (n - 1)) % TimeDen
       IN /\ last.threw = NoThrow
          /\ Influence(k) = TimeDen - f
          /\ Influence(k + 1) = f
          /\ \A i \in NonPadding \ {k, k + 1} : Influence(i) = 0
          /\ SumOf(data.points.morphTargetInfluences) = TimeDen
          /\ data.time = last.arg
  /\ last.op = "getTime" =>
       last.ret = (IF data.time = Undefined THEN 0 ELSE data.time)

\* C13 as stated: addData with format 'magnitude' and a non-empty array adds
\* one point per triple to the base geometry, and a following createPoints
\* adds one points mesh built from that geometry to the scene.
C13_DataPoints ==
  /\ (/\ last.op = "addData"
      /\ last.arg.format \in {"undefined", "magnitude"}
      /\ last.arg.triples >= 1) =>
       /\ last.threw = NoThrow
       /\ data.baseGeometry.defined
       /\ data.baseGeometry.vertices = last.arg.triples
  /\ (last.op = "createPoints" /\ data.triples >= 1) =>
       /\ data.scenePoints = last.pointsBefore + 1
       /\ data.points.defined
       /\ data.points.vertices = data.triples

====
